---- MODULE Spec2Model ----
(***************************************************************************)
(* The two gravity simulations of the repository: gravity.js (2-D canvas)  *)
(* and gravity3d.js (three.js).  A page loads one of the two scripts; the  *)
(* variable `variant` says which.  The model covers the body, the orbit    *)
(* trail, the frame loop (requestAnimationFrame / cancelAnimationFrame)    *)
(* and the four controls: start, stop, reset and the grid checkbox.        *)
(*                                                                         *)
(* Numbers.  The scripts compute in IEEE doubles.  The model computes in   *)
(* fixed point: a real v is the integer v * SCALE, and every product,      *)
(* quotient and square root is rounded towards zero to that resolution.    *)
(* SCALE2D and SCALE3D are chosen so that the first step from the reset    *)
(* state is exact (2/9 and 1/45 are lattice points).  TLC integers are     *)
(* 32 bits wide, so products go through MulDiv, which never forms a*b.     *)
(***************************************************************************)
EXTENDS Integers, Sequences, FiniteSets, TLC

VARIABLES
    variant,            \* "2d": gravity.js, "3d": gravity3d.js
    planet,             \* the body: [x, y, vx, vy] in 2-D, [pos, vel, acc] in 3-D
    star,               \* the central mass: star in 2-D, starPos in 3-D
    orbitPath,          \* 2-D trail, an array of points
    positions,          \* 3-D trail, the Float32Array of the position attribute
    orbitDrawCount,     \* 3-D: how many points of `positions` are drawn
    animationFrameId,   \* NULL or the handle of the frame request
    scheduled,          \* handles of the frame callbacks the browser holds
    showSpacetimeCheck, \* the checkbox's `checked`
    gridVisible,        \* 3-D: spacetimeGridMesh.visible
    console,            \* what the last handler wrote with console.log / console.warn
    canvas,             \* 2-D: width and height of gravityCanvas
    stroke,             \* 2-D: the orbit polyline on the canvas, in canvas points
    event,              \* the last event the browser delivered
    ticks,              \* step attempts since the last reset (bounds the run)
    proximity,          \* a step has signalled proximity since the last reset
    pushed              \* the positions handed to the trail since it was cleared

vars ==
    << variant, planet, star, orbitPath, positions, orbitDrawCount,
       animationFrameId, scheduled, showSpacetimeCheck, gridVisible, console,
       canvas, stroke, event, ticks, proximity, pushed >>

-----------------------------------------------------------------------------
(* Bounds of the model *)

\* The trail capacity. The scripts use 1000; the model keeps the same code
\* with a capacity small enough for the trail to fill and evict.
MAX_ORBIT_POINTS == 3

\* Step attempts explored after a reset (or after the start of the run).
MaxTicks == 6

-----------------------------------------------------------------------------
(* Fixed-point arithmetic *)

\* null, for animationFrameId: no handle is 0
NULL == 0

Abs(a) ==
    IF a < 0 THEN -a ELSE a

Sgn(a) ==
    IF a < 0 THEN -1 ELSE 1

\* <<q, r>> with a * b = q * c + r and 0 <= r < c, for 0 <= a < c < 2^30 and
\* b >= 0, digit by digit of b: in base 8 while 9 * c stays in range, in
\* base 2 above.  No intermediate value exceeds 9 * c, or 2 * c in base 2.
RECURSIVE MulRem(_, _, _)
MulRem(a, b, c) ==
    IF b = 0
    THEN << 0, 0 >>
    ELSE LET k == IF c < 2^27 THEN 8 ELSE 2
             h == MulRem(a, b \div k, c)
             t == k * h[2]
             u == (t % c) + a * (b % k)
         IN  << k * h[1] + (t \div c) + (u \div c), u % c >>

\* a * b / c rounded towards zero.  With A = |a|, B = |b|, C = |c|:
\* A * B = (A div C) * B * C + (A mod C) * (B div C) * C + (A mod C) * (B mod C),
\* and the last product, of two numbers below C, is formed directly when it
\* fits and by doubling on the smaller factor when it does not.
MulDiv(a, b, c) ==
    LET A  == Abs(a)
        B  == Abs(b)
        C  == Abs(c)
        ra == A % C
        rb == B % C
        lo == IF ra <= rb THEN ra ELSE rb
        hi == IF ra <= rb THEN rb ELSE ra
    IN  Sgn(a) * Sgn(b) * Sgn(c)
          * ((A \div C) * B + ra * (B \div C)
             + (IF C <= 2^15 THEN (hi * lo) \div C ELSE MulRem(hi, lo, C)[1]))

\* The fixed-point product, quotient and literal at resolution 1/S.
FMul(a, b, S) ==
    MulDiv(a, b, S)

FDiv(a, b, S) ==
    MulDiv(a, S, b)

Lit(n, d, S) ==
    (n * S) \div d

\* The largest m in {base + d * step : d \in 0 .. 31} with m * m / S <= a,
\* given that base * base / S <= a.
SqrtDigit(a, base, step, S) ==
    LET Fits(d) == FMul(base + d * step, base + d * step, S) <= a
    IN  base + step * (CHOOSE d \in 0 .. 31 : Fits(d) /\ (d = 31 \/ ~Fits(d + 1)))

\* Math.sqrt at resolution 1/S: the largest m below 2^20 with m * m / S <= a,
\* found digit by digit in base 32.
FSqrt(a, S) ==
    LET d3 == SqrtDigit(a, 0, 2^15, S)
        d2 == SqrtDigit(a, d3, 2^10, S)
        d1 == SqrtDigit(a, d2, 2^5, S)
    IN  SqrtDigit(a, d1, 1, S)

-----------------------------------------------------------------------------
(* gravity.js: parameters, initial state and the physics update *)

\* Resolution of the 2-D numbers: dt, 2.5, the first velocity change 2/9 and
\* the first displacement 1/900 are all multiples of 1/1800.
SCALE2D == 9 * 200

G_scaled == 1000

M_STAR == 1000

M_PLANET == 1

\* const dt = 0.005
dt2D == Lit(5, 1000, SCALE2D)

\* let planet = { x: 150, y: 0, vx: 0, vy: 2.5 }
InitialPlanet2D ==
    [x |-> Lit(150, 1, SCALE2D), y |-> 0, vx |-> 0, vy |-> Lit(25, 10, SCALE2D)]

\* let star = { x: 0, y: 0 }
InitialStar2D ==
    [x |-> 0, y |-> 0]

\* dx * dx + dy * dy of updateOrbit
DistSq2D(p, s) ==
    LET dx == s.x - p.x
        dy == s.y - p.y
    IN  FMul(dx, dx, SCALE2D) + FMul(dy, dy, SCALE2D)

\* The test with <= in place of <.
TooClose2D_Inclusive(p, s) ==
    FSqrt(DistSq2D(p, s), SCALE2D) <= Lit(1, 1, SCALE2D)

\* if (dist < 1): the step is refused
TooClose2D(p, s) ==
    FSqrt(DistSq2D(p, s), SCALE2D) < Lit(1, 1, SCALE2D)

\* Integrate2D with dx and dy taken from the star to the body: the force
\* pushes the body away.
Integrate2D_Repels(p, s) ==
    LET dx       == p.x - s.x
        dy       == p.y - s.y
        distSq   == DistSq2D(p, s)
        dist     == FSqrt(distSq, SCALE2D)
        forceMag == FDiv(Lit(G_scaled * M_STAR * M_PLANET, 1, SCALE2D), distSq, SCALE2D)
        accelX   == FDiv(FMul(forceMag, FDiv(dx, dist, SCALE2D), SCALE2D),
                         Lit(M_PLANET, 1, SCALE2D), SCALE2D)
        accelY   == FDiv(FMul(forceMag, FDiv(dy, dist, SCALE2D), SCALE2D),
                         Lit(M_PLANET, 1, SCALE2D), SCALE2D)
        vx       == p.vx + FMul(accelX, dt2D, SCALE2D)
        vy       == p.vy + FMul(accelY, dt2D, SCALE2D)
    IN  [x  |-> p.x + FMul(vx, dt2D, SCALE2D),
         y  |-> p.y + FMul(vy, dt2D, SCALE2D),
         vx |-> vx,
         vy |-> vy]

\* The body after the velocity and position updates of updateOrbit.
Integrate2D(p, s) ==
    LET dx       == s.x - p.x
        dy       == s.y - p.y
        distSq   == DistSq2D(p, s)
        dist     == FSqrt(distSq, SCALE2D)
        forceMag == FDiv(Lit(G_scaled * M_STAR * M_PLANET, 1, SCALE2D), distSq, SCALE2D)
        forceX   == FMul(forceMag, FDiv(dx, dist, SCALE2D), SCALE2D)
        forceY   == FMul(forceMag, FDiv(dy, dist, SCALE2D), SCALE2D)
        accelX   == FDiv(forceX, Lit(M_PLANET, 1, SCALE2D), SCALE2D)
        accelY   == FDiv(forceY, Lit(M_PLANET, 1, SCALE2D), SCALE2D)
        vx       == p.vx + FMul(accelX, dt2D, SCALE2D)
        vy       == p.vy + FMul(accelY, dt2D, SCALE2D)
    IN  [x  |-> p.x + FMul(vx, dt2D, SCALE2D),
         y  |-> p.y + FMul(vy, dt2D, SCALE2D),
         vx |-> vx,
         vy |-> vy]

\* PushPath that empties the array when it is over capacity, with
\* orbitPath = [] in place of orbitPath.shift().
PushPath_ClearsWhenFull(path, p) ==
    LET grown == Append(path, [x |-> p.x, y |-> p.y])
    IN  IF Len(grown) > MAX_ORBIT_POINTS THEN << >> ELSE grown

\* PushPath without the shift: the trail only grows.
PushPath_NoShift(path, p) ==
    Append(path, [x |-> p.x, y |-> p.y])

\* orbitPath.push({x, y}); if (orbitPath.length > 1000) orbitPath.shift()
PushPath(path, p) ==
    LET grown == Append(path, [x |-> p.x, y |-> p.y])
    IN  IF Len(grown) > MAX_ORBIT_POINTS THEN Tail(grown) ELSE grown

-----------------------------------------------------------------------------
(* gravity3d.js: parameters, initial state, physics and trail update *)

\* Resolution of the 3-D numbers: dt, the first velocity change 1/45 and the
\* first displacement 1/4500 are all multiples of 1/4500.
SCALE3D == 45 * 100

G == 50

\* const dt = 0.01
dt3D == Lit(1, 100, SCALE3D)

Vec(a, b, c) ==
    [x |-> a, y |-> b, z |-> c]

\* initialPlanetPos, initialPlanetVel and the acc of the planet object
InitialPlanet3D ==
    [pos |-> Vec(Lit(150, 1, SCALE3D), 0, 0),
     vel |-> Vec(0, Lit(15, 1, SCALE3D), Lit(5, 1, SCALE3D)),
     acc |-> Vec(0, 0, 0)]

\* const starPos = new THREE.Vector3(0, 0, 0)
InitialStar3D ==
    Vec(0, 0, 0)

\* Vector3.subVectors(a, b)
SubVectors(a, b) ==
    Vec(a.x - b.x, a.y - b.y, a.z - b.z)

\* Vector3.lengthSq()
LengthSq(v) ==
    FMul(v.x, v.x, SCALE3D) + FMul(v.y, v.y, SCALE3D) + FMul(v.z, v.z, SCALE3D)

\* Vector3.normalize(): divide by the length, or by 1 when the length is 0
Normalize(v) ==
    LET len == FSqrt(LengthSq(v), SCALE3D)
        by  == IF len = 0 THEN Lit(1, 1, SCALE3D) ELSE len
    IN  Vec(FDiv(v.x, by, SCALE3D), FDiv(v.y, by, SCALE3D), FDiv(v.z, by, SCALE3D))

\* Vector3.multiplyScalar(k)
MultiplyScalar(v, k) ==
    Vec(FMul(v.x, k, SCALE3D), FMul(v.y, k, SCALE3D), FMul(v.z, k, SCALE3D))

\* Vector3.addScaledVector(w, k)
AddScaledVector(v, w, k) ==
    Vec(v.x + FMul(w.x, k, SCALE3D), v.y + FMul(w.y, k, SCALE3D),
        v.z + FMul(w.z, k, SCALE3D))

\* if (distSq < 25): the step is refused
TooClose3D(p, s) ==
    LengthSq(SubVectors(s, p.pos)) < Lit(25, 1, SCALE3D)

\* Integrate3D with the two addScaledVector lines swapped: the position
\* moves by the old velocity.
Integrate3D_PositionFirst(p, s) ==
    LET diff   == SubVectors(s, p.pos)
        distSq == LengthSq(diff)
        acc    == MultiplyScalar(Normalize(diff),
                                 FDiv(Lit(G * M_STAR, 1, SCALE3D), distSq, SCALE3D))
    IN  [pos |-> AddScaledVector(p.pos, p.vel, dt3D),
         vel |-> AddScaledVector(p.vel, acc, dt3D),
         acc |-> acc]

\* The body after the acc, vel and pos updates of updatePhysics.
Integrate3D(p, s) ==
    LET diff   == SubVectors(s, p.pos)
        distSq == LengthSq(diff)
        acc    == MultiplyScalar(Normalize(diff),
                                 FDiv(Lit(G * M_STAR, 1, SCALE3D), distSq, SCALE3D))
        vel    == AddScaledVector(p.vel, acc, dt3D)
    IN  [pos |-> AddScaledVector(p.pos, vel, dt3D), vel |-> vel, acc |-> acc]

\* A store into the Float32Array: a double keeps 53 significant bits, a
\* float 24.  At the model's resolution the store drops the two lowest bits.
Fround(a) ==
    Sgn(a) * ((Abs(a) \div 4) * 4)

\* The Float32Array of createOrbitTrail, all zero.
EmptyPositions ==
    [i \in 0 .. (MAX_ORBIT_POINTS * 3 - 1) |-> 0]

\* PushPositions without the shift loop: at capacity the new point overwrites
\* the last slot and the older points stay where they are.
PushPositions_NoShift(buf, count, pos) ==
    LET at == IF count < MAX_ORBIT_POINTS THEN count ELSE MAX_ORBIT_POINTS - 1
    IN  << [buf EXCEPT ![at * 3]     = Fround(pos.x),
                       ![at * 3 + 1] = Fround(pos.y),
                       ![at * 3 + 2] = Fround(pos.z)],
           IF count < MAX_ORBIT_POINTS THEN count + 1 ELSE count >>

\* The trail part of updateVisuals: <<positions, orbitDrawCount>> afterwards.
\* Below capacity the point is written at orbitDrawCount; at capacity every
\* point moves one slot down and the new one takes the last slot.
PushPositions(buf, count, pos) ==
    IF count < MAX_ORBIT_POINTS
    THEN << [buf EXCEPT ![count * 3]     = Fround(pos.x),
                        ![count * 3 + 1] = Fround(pos.y),
                        ![count * 3 + 2] = Fround(pos.z)],
            count + 1 >>
    ELSE << [i \in DOMAIN buf |->
                IF i < (MAX_ORBIT_POINTS - 1) * 3
                THEN buf[i + 3]
                ELSE IF i = (MAX_ORBIT_POINTS - 1) * 3     THEN Fround(pos.x)
                ELSE IF i = (MAX_ORBIT_POINTS - 1) * 3 + 1 THEN Fround(pos.y)
                ELSE Fround(pos.z)],
            count >>

-----------------------------------------------------------------------------
(* The state the handlers work on, and the browser's frame requests *)

\* The variables as one record: a handler is an operator from the state at
\* its entry to the state at its return.
Cur ==
    [planet |-> planet, star |-> star, orbitPath |-> orbitPath,
     positions |-> positions, orbitDrawCount |-> orbitDrawCount,
     animationFrameId |-> animationFrameId, scheduled |-> scheduled,
     showSpacetimeCheck |-> showSpacetimeCheck, gridVisible |-> gridVisible,
     console |-> console, stroke |-> stroke,
     ticks |-> ticks, proximity |-> proximity, pushed |-> pushed]

\* The part of the state the scripts themselves hold or drive.
Program(s) ==
    [planet |-> s.planet, star |-> s.star, orbitPath |-> s.orbitPath,
     positions |-> s.positions, orbitDrawCount |-> s.orbitDrawCount,
     animationFrameId |-> s.animationFrameId, scheduled |-> s.scheduled,
     showSpacetimeCheck |-> s.showSpacetimeCheck, gridVisible |-> s.gridVisible]

\* A handler starts with nothing written to the console yet.
Enter(s) ==
    [s EXCEPT !.console = << >>]

Log(s, msg) ==
    [s EXCEPT !.console = Append(@, msg)]

\* A handle no live request has.  The browser numbers requests upwards; the
\* only handle the scripts keep is animationFrameId, so the least number
\* that is neither scheduled nor kept is as fresh as a new one.
NewHandle(s) ==
    CHOOSE h \in 1 .. (Cardinality(s.scheduled) + 2) :
        /\ h \notin s.scheduled
        /\ h # s.animationFrameId
        /\ \A k \in 1 .. (h - 1) : k \in s.scheduled \/ k = s.animationFrameId

\* animationFrameId = requestAnimationFrame(callback)
RequestFrame(s) ==
    LET h == NewHandle(s)
    IN  [s EXCEPT !.animationFrameId = h, !.scheduled = @ \cup {h}]

\* The browser takes request h off its list and runs the callback.
Fire(s, h) ==
    [Enter(s) EXCEPT !.scheduled = @ \ {h}]

-----------------------------------------------------------------------------
(* gravity.js: the canvas *)

\* gravityCanvas.width and .height are attributes of the page.  300 x 150 is
\* what a canvas element has when the page sets neither.
CanvasSizes ==
    {[width |-> 300, height |-> 150], [width |-> 600, height |-> 400]}

\* gravity3d.js draws through three.js and has no 2-D canvas.
NoCanvas ==
    [width |-> 0, height |-> 0]

\* const PIXELS_PER_UNIT = 1.5
PIXELS_PER_UNIT == Lit(15, 10, SCALE2D)

\* simToCanvas
SimToCanvas(simX, simY) ==
    [x |-> Lit(canvas.width, 2, SCALE2D) + FMul(simX, PIXELS_PER_UNIT, SCALE2D),
     y |-> Lit(canvas.height, 2, SCALE2D) - FMul(simY, PIXELS_PER_UNIT, SCALE2D)]

\* clearRect and fillRect over the whole canvas
ClearCanvas(s) ==
    [s EXCEPT !.stroke = << >>]

\* drawOrbitPath that turns the array round with orbitPath.reverse(), which
\* reverses in place, and draws from the newest point.
DrawOrbitPath_ReversesInPlace(s) ==
    IF Len(s.orbitPath) < 2
    THEN s
    ELSE LET n == Len(s.orbitPath)
             r == [i \in 1 .. n |-> s.orbitPath[n + 1 - i]]
         IN  [s EXCEPT !.orbitPath = r,
                       !.stroke = [i \in 1 .. n |-> SimToCanvas(r[i].x, r[i].y)]]

\* drawOrbitPath: nothing with fewer than two points, else moveTo the first
\* point and lineTo each of the others, by index
DrawOrbitPath(s) ==
    IF Len(s.orbitPath) < 2
    THEN s
    ELSE [s EXCEPT !.stroke =
            [i \in 1 .. Len(s.orbitPath) |->
                SimToCanvas(s.orbitPath[i].x, s.orbitPath[i].y)]]

-----------------------------------------------------------------------------
(* gravity.js: handlers *)

\* stopOrbit that forgets the handle without cancelAnimationFrame.
StopOrbit2D_KeepsCallback(s) ==
    IF s.animationFrameId # NULL
    THEN Log([s EXCEPT !.animationFrameId = NULL], "Orbit simulation stopped.")
    ELSE s

\* stopOrbit
StopOrbit2D(s) ==
    IF s.animationFrameId # NULL
    THEN Log([s EXCEPT !.scheduled = @ \ {s.animationFrameId},
                       !.animationFrameId = NULL],
             "Orbit simulation stopped.")
    ELSE s

\* updateOrbit that leaves the physics out while the grid is drawn: the
\* point is still pushed.
UpdateOrbit_IdleWhileGridShown(s) ==
    LET t == [s EXCEPT !.ticks = @ + 1]
    IN  IF TooClose2D(t.planet, t.star)
        THEN StopOrbit2D(Log([t EXCEPT !.proximity = TRUE],
                             "Planet too close to star!"))
        ELSE LET p == IF t.showSpacetimeCheck
                      THEN t.planet
                      ELSE Integrate2D(t.planet, t.star)
             IN  [t EXCEPT !.planet = p,
                           !.orbitPath = PushPath(@, p),
                           !.pushed = Append(@, [x |-> p.x, y |-> p.y])]

\* updateOrbit
UpdateOrbit(s) ==
    LET t == [s EXCEPT !.ticks = @ + 1]
    IN  IF TooClose2D(t.planet, t.star)
        THEN StopOrbit2D(Log([t EXCEPT !.proximity = TRUE],
                             "Planet too close to star!"))
        ELSE LET p == Integrate2D(t.planet, t.star)
             IN  [t EXCEPT !.planet = p,
                           !.orbitPath = PushPath(@, p),
                           !.pushed = Append(@, [x |-> p.x, y |-> p.y])]

\* gameLoop: clear, update, draw, request the next frame
GameLoop(s) ==
    RequestFrame(DrawOrbitPath(UpdateOrbit(ClearCanvas(s))))

\* resetOrbit with orbitPath.shift() in place of orbitPath = []: each reset
\* drops one point only.
ResetOrbit2D_DropsOldest(s) ==
    Log(DrawOrbitPath(ClearCanvas(
            [StopOrbit2D(s) EXCEPT !.planet = InitialPlanet2D,
                                   !.orbitPath = IF Len(@) = 0 THEN @ ELSE Tail(@),
                                   !.ticks = 0, !.proximity = FALSE,
                                   !.pushed = << >>])),
        "Orbit simulation reset.")

\* resetOrbit: stop, body and trail back to the start, clear and draw
ResetOrbit2D(s) ==
    Log(DrawOrbitPath(ClearCanvas(
            [StopOrbit2D(s) EXCEPT !.planet = InitialPlanet2D,
                                   !.orbitPath = << >>,
                                   !.ticks = 0, !.proximity = FALSE,
                                   !.pushed = << >>])),
        "Orbit simulation reset.")

\* startOrbit without the animationFrameId === null test.
StartOrbit2D_Unguarded(s) ==
    Log(RequestFrame(IF Len(s.orbitPath) = 0 THEN ResetOrbit2D(s) ELSE s),
        "Orbit simulation started.")

\* startOrbit that also resets when the body sits at the star.
StartOrbit2D_RestartsAtStar(s) ==
    IF s.animationFrameId = NULL
    THEN Log(RequestFrame(IF Len(s.orbitPath) = 0 \/ TooClose2D(s.planet, s.star)
                          THEN ResetOrbit2D(s) ELSE s),
             "Orbit simulation started.")
    ELSE s

\* startOrbit
StartOrbit2D(s) ==
    IF s.animationFrameId = NULL
    THEN Log(RequestFrame(IF Len(s.orbitPath) = 0 THEN ResetOrbit2D(s) ELSE s),
             "Orbit simulation started.")
    ELSE s

\* The change listener of the checkbox is resetOrbit.
ToggleGrid2D(s) ==
    ResetOrbit2D([s EXCEPT !.showSpacetimeCheck = ~@])

-----------------------------------------------------------------------------
(* gravity3d.js: handlers *)

\* stopOrbit
StopOrbit3D(s) ==
    IF s.animationFrameId # NULL
    THEN Log([s EXCEPT !.scheduled = @ \ {s.animationFrameId},
                       !.animationFrameId = NULL],
             "3D Orbit simulation stopped.")
    ELSE s

\* updatePhysics that also brings the body to rest when it refuses the step.
UpdatePhysics_HaltsBody(s) ==
    LET t == [s EXCEPT !.ticks = @ + 1]
    IN  IF TooClose3D(t.planet, t.star)
        THEN StopOrbit3D(Log([t EXCEPT !.proximity = TRUE,
                                       !.planet.vel = Vec(0, 0, 0)],
                             "Collision detected!"))
        ELSE [t EXCEPT !.planet = Integrate3D(t.planet, t.star)]

\* updatePhysics taking the difference with starPos.sub(planet.pos), which
\* writes the difference into starPos.
UpdatePhysics_SubInPlace(s) ==
    LET t == [s EXCEPT !.ticks = @ + 1]
    IN  IF TooClose3D(t.planet, t.star)
        THEN StopOrbit3D(Log([t EXCEPT !.proximity = TRUE,
                                       !.star = SubVectors(t.star, t.planet.pos)],
                             "Collision detected!"))
        ELSE [t EXCEPT !.planet = Integrate3D(t.planet, t.star),
                       !.star = SubVectors(t.star, t.planet.pos)]

\* updatePhysics
UpdatePhysics(s) ==
    LET t == [s EXCEPT !.ticks = @ + 1]
    IN  IF TooClose3D(t.planet, t.star)
        THEN StopOrbit3D(Log([t EXCEPT !.proximity = TRUE], "Collision detected!"))
        ELSE [t EXCEPT !.planet = Integrate3D(t.planet, t.star)]

\* updateVisuals: the trail update (the mesh and the grid are drawing only)
UpdateVisuals(s) ==
    LET r == PushPositions(s.positions, s.orbitDrawCount, s.planet.pos)
    IN  [s EXCEPT !.positions = r[1],
                  !.orbitDrawCount = r[2],
                  !.pushed = Append(@, s.planet.pos)]

\* animate with updateVisuals() before updatePhysics(): the trail gets the
\* position of the tick before.
Animate_VisualsFirst(s) ==
    UpdatePhysics(UpdateVisuals(RequestFrame(s)))

\* animate: request the next frame, update the physics, update the visuals
Animate(s) ==
    UpdateVisuals(UpdatePhysics(RequestFrame(s)))

\* startOrbit without the animationFrameId === null test.
StartOrbit3D_Unguarded(s) ==
    Log(Animate(s), "3D Orbit simulation started.")

\* startOrbit
StartOrbit3D(s) ==
    IF s.animationFrameId = NULL
    THEN Log(Animate(s), "3D Orbit simulation started.")
    ELSE s

\* resetOrbit without the stopOrbit() call.
ResetOrbit3D_NoStop(s) ==
    Log([s EXCEPT !.planet = InitialPlanet3D,
                  !.orbitDrawCount = 0,
                  !.ticks = 0, !.proximity = FALSE,
                  !.pushed = << >>],
        "3D Orbit simulation reset.")

\* resetOrbit without orbitDrawCount = 0: the draw range stays as it was.
ResetOrbit3D_KeepsDrawCount(s) ==
    Log([StopOrbit3D(s) EXCEPT !.planet = InitialPlanet3D,
                               !.ticks = 0, !.proximity = FALSE,
                               !.pushed = << >>],
        "3D Orbit simulation reset.")

\* resetOrbit
ResetOrbit3D(s) ==
    Log([StopOrbit3D(s) EXCEPT !.planet = InitialPlanet3D,
                               !.orbitDrawCount = 0,
                               !.ticks = 0, !.proximity = FALSE,
                               !.pushed = << >>],
        "3D Orbit simulation reset.")

\* toggleSpacetimeGrid, after the click has flipped the checkbox
ToggleSpacetimeGrid(s) ==
    LET t == [s EXCEPT !.showSpacetimeCheck = ~@]
    IN  [t EXCEPT !.gridVisible = t.showSpacetimeCheck]

\* The points the orbit line draws: that is the draw range 0 .. orbitDrawCount.
Trail3D(buf, count) ==
    [i \in 1 .. count |-> Vec(buf[(i - 1) * 3], buf[(i - 1) * 3 + 1], buf[(i - 1) * 3 + 2])]

-----------------------------------------------------------------------------
(* Where a run starts *)

\* gravity.js once the script has run: the declarations, the listeners and
\* the resetOrbit() of its last line.
Loaded2D(checked) ==
    [planet |-> InitialPlanet2D, star |-> InitialStar2D, orbitPath |-> << >>,
     positions |-> EmptyPositions, orbitDrawCount |-> 0,
     animationFrameId |-> NULL, scheduled |-> {},
     showSpacetimeCheck |-> checked, gridVisible |-> FALSE,
     console |-> << "Orbit simulation reset." >>, stroke |-> << >>,
     ticks |-> 0, proximity |-> FALSE, pushed |-> << >>]

\* gravity.js late in its run, stopped by the user: the body as the shipped
\* constants leave it before the 406th step (from position (150, 0) the body
\* falls almost straight into the star), the trail ending at the body.
Falling2D(checked) ==
    LET p == [x  |-> Lit(94949, 10000, SCALE2D),
              y  |-> Lit(15888, 10000, SCALE2D),
              vx |-> Lit(-41526, 100, SCALE2D),
              vy |-> Lit(-2999, 100, SCALE2D)]
    IN  [Loaded2D(checked) EXCEPT
            !.planet = p,
            !.orbitPath = << [x |-> p.x, y |-> p.y] >>,
            !.pushed = << [x |-> p.x, y |-> p.y] >>,
            !.console = << "Orbit simulation stopped." >>]

\* init() ending with animate() instead of resetOrbit(): the page loads with
\* the loop already running.
Loaded3D_AutoStarts(checked) ==
    [planet |-> InitialPlanet3D, star |-> InitialStar3D, orbitPath |-> << >>,
     positions |-> EmptyPositions, orbitDrawCount |-> 0,
     animationFrameId |-> 1, scheduled |-> {1},
     showSpacetimeCheck |-> checked, gridVisible |-> checked,
     console |-> << >>, stroke |-> << >>,
     ticks |-> 0, proximity |-> FALSE, pushed |-> << >>]

\* gravity3d.js once init() has run: createOrbitTrail, createSpacetimeGrid
\* and the resetOrbit() that ends it.
Loaded3D(checked) ==
    [planet |-> InitialPlanet3D, star |-> InitialStar3D, orbitPath |-> << >>,
     positions |-> EmptyPositions, orbitDrawCount |-> 0,
     animationFrameId |-> NULL, scheduled |-> {},
     showSpacetimeCheck |-> checked, gridVisible |-> checked,
     console |-> << "3D Orbit simulation reset." >>, stroke |-> << >>,
     ticks |-> 0, proximity |-> FALSE, pushed |-> << >>]

\* gravity3d.js with the body falling along the x axis towards the star,
\* stopped by the user, the trail ending at the body.
Falling3D(checked) ==
    LET pos == Vec(Lit(20, 1, SCALE3D), 0, 0)
        one == PushPositions(EmptyPositions, 0, pos)
    IN  [Loaded3D(checked) EXCEPT
            !.planet = [pos |-> pos,
                        vel |-> Vec(Lit(-1000, 1, SCALE3D), 0, 0),
                        acc |-> Vec(0, 0, 0)],
            !.positions = one[1],
            !.orbitDrawCount = one[2],
            !.pushed = << pos >>,
            !.console = << "3D Orbit simulation stopped." >>]

Starts(v, checked) ==
    IF v = "2d"
    THEN {Loaded2D(checked), Falling2D(checked)}
    ELSE {Loaded3D(checked), Falling3D(checked)}

-----------------------------------------------------------------------------
(* The state machine *)

\* The state a handler leaves becomes the next state.
Becomes(ev, t) ==
    /\ planet' = t.planet
    /\ star' = t.star
    /\ orbitPath' = t.orbitPath
    /\ positions' = t.positions
    /\ orbitDrawCount' = t.orbitDrawCount
    /\ animationFrameId' = t.animationFrameId
    /\ scheduled' = t.scheduled
    /\ showSpacetimeCheck' = t.showSpacetimeCheck
    /\ gridVisible' = t.gridVisible
    /\ console' = t.console
    /\ stroke' = t.stroke
    /\ ticks' = t.ticks
    /\ proximity' = t.proximity
    /\ pushed' = t.pushed
    /\ event' = ev
    /\ UNCHANGED << variant, canvas >>

Init ==
    /\ variant \in {"2d", "3d"}
    /\ canvas \in (IF variant = "2d" THEN CanvasSizes ELSE {NoCanvas})
    /\ \E checked \in BOOLEAN :
         \E s \in Starts(variant, checked) :
            /\ event = (IF s.pushed = << >> THEN "load" ELSE "stop")
            /\ planet = s.planet
            /\ star = s.star
            /\ orbitPath = s.orbitPath
            /\ positions = s.positions
            /\ orbitDrawCount = s.orbitDrawCount
            /\ animationFrameId = s.animationFrameId
            /\ scheduled = s.scheduled
            /\ showSpacetimeCheck = s.showSpacetimeCheck
            /\ gridVisible = s.gridVisible
            /\ console = s.console
            /\ stroke = s.stroke
            /\ ticks = s.ticks
            /\ proximity = s.proximity
            /\ pushed = s.pushed

\* The browser runs a scheduled gameLoop.
Frame2D ==
    /\ variant = "2d"
    /\ ticks < MaxTicks
    /\ \E h \in scheduled : Becomes("frame", GameLoop(Fire(Cur, h)))

ClickStart2D ==
    /\ variant = "2d"
    /\ Becomes("start", StartOrbit2D(Enter(Cur)))

ClickStop2D ==
    /\ variant = "2d"
    /\ Becomes("stop", StopOrbit2D(Enter(Cur)))

ClickReset2D ==
    /\ variant = "2d"
    /\ Becomes("reset", ResetOrbit2D(Enter(Cur)))

ChangeGrid2D ==
    /\ variant = "2d"
    /\ Becomes("grid", ToggleGrid2D(Enter(Cur)))

\* The browser runs a scheduled animate.
Frame3D ==
    /\ variant = "3d"
    /\ ticks < MaxTicks
    /\ \E h \in scheduled : Becomes("frame", Animate(Fire(Cur, h)))

\* startOrbit runs animate itself, so a start that is not refused is a step.
ClickStart3D ==
    /\ variant = "3d"
    /\ animationFrameId = NULL => ticks < MaxTicks
    /\ Becomes("start", StartOrbit3D(Enter(Cur)))

ClickStop3D ==
    /\ variant = "3d"
    /\ Becomes("stop", StopOrbit3D(Enter(Cur)))

ClickReset3D ==
    /\ variant = "3d"
    /\ Becomes("reset", ResetOrbit3D(Enter(Cur)))

ChangeGrid3D ==
    /\ variant = "3d"
    /\ Becomes("grid", ToggleSpacetimeGrid(Enter(Cur)))

Next ==
    \/ Frame2D
    \/ ClickStart2D
    \/ ClickStop2D
    \/ ClickReset2D
    \/ ChangeGrid2D
    \/ Frame3D
    \/ ClickStart3D
    \/ ClickStop3D
    \/ ClickReset3D
    \/ ChangeGrid3D

Spec ==
    Init /\ [][Next]_vars

-----------------------------------------------------------------------------
(* What the claims speak about *)

\* The trail as the renderer sees it, oldest point first.
TrailOf(s) ==
    IF variant = "2d" THEN s.orbitPath ELSE Trail3D(s.positions, s.orbitDrawCount)

Trail ==
    TrailOf(Cur)

\* The body's position and velocity.
BodyOf(s) ==
    IF variant = "2d"
    THEN << s.planet.x, s.planet.y, s.planet.vx, s.planet.vy >>
    ELSE << s.planet.pos, s.planet.vel >>

Body ==
    BodyOf(Cur)

\* The fixed initial position and velocity.
InitialBody ==
    IF variant = "2d"
    THEN << InitialPlanet2D.x, InitialPlanet2D.y, InitialPlanet2D.vx, InitialPlanet2D.vy >>
    ELSE << InitialPlanet3D.pos, InitialPlanet3D.vel >>

\* The handler that left state s signalled the proximity condition.
WarnedIn(s) ==
    \E i \in DOMAIN s.console :
        s.console[i] \in {"Planet too close to star!", "Collision detected!"}

Warned ==
    WarnedIn(Cur)

\* The run state is Stopped: no handle kept and no frame callback registered.
StoppedIn(s) ==
    s.animationFrameId = NULL /\ s.scheduled = {}

Stopped ==
    StoppedIn(Cur)

\* The handlers of the loaded script, from the state at the event.
Reset(s) ==
    IF variant = "2d" THEN ResetOrbit2D(Enter(s)) ELSE ResetOrbit3D(Enter(s))

Start(s) ==
    IF variant = "2d" THEN StartOrbit2D(Enter(s)) ELSE StartOrbit3D(Enter(s))

Frame(s, h) ==
    IF variant = "2d" THEN GameLoop(Fire(s, h)) ELSE Animate(Fire(s, h))

\* The last n elements of a sequence (all of it when it is shorter).
LastN(q, n) ==
    IF Len(q) <= n THEN q ELSE SubSeq(q, Len(q) - n + 1, Len(q))

-----------------------------------------------------------------------------
(* C1 *)

\* C1: a frame tick that finds the body closer to the central mass than the
\* collision threshold leaves the run state Stopped: animationFrameId is null
\* and no frame callback remains registered.
C1_ProximityTickStops ==
    (event = "frame" /\ Warned) => Stopped

-----------------------------------------------------------------------------
(* C2 *)

\* C2: a step taken while the body is closer to the central mass than the
\* collision threshold signals the proximity condition and leaves the body's
\* position and velocity exactly as they were, in 2-D and in 3-D.  A step is
\* taken by every frame tick and, in 3-D, by the animate call of a start.
C2_RejectedStepKeepsBody ==
    [][ /\ ticks' = ticks + 1
        /\ (IF variant = "2d" THEN TooClose2D(planet, star)
                              ELSE TooClose3D(planet, star))
        => (Warned' /\ Body' = Body) ]_vars

\* A 3-D frame tick has just refused its step.
C2_Witness ==
    variant = "3d" /\ event = "frame" /\ Warned /\ proximity

-----------------------------------------------------------------------------
(* C3 *)

\* The trail `new` is the trail `old` with one point appended, the oldest
\* point dropped when `old` was full.
AppendedOne(old, new) ==
    /\ Len(new) >= 1
    /\ new = LastN(Append(old, new[Len(new)]), MAX_ORBIT_POINTS)

-----------------------------------------------------------------------------
(* C4 *)

\* C4: between events the trail holds at most the capacity: orbitPath.length
\* in 2-D and orbitDrawCount in 3-D never exceed MAX_ORBIT_POINTS.
C4_TrailWithinCapacity ==
    /\ Len(orbitPath) <= MAX_ORBIT_POINTS
    /\ orbitDrawCount <= MAX_ORBIT_POINTS
    /\ Len(Trail) <= MAX_ORBIT_POINTS

\* The 2-D trail is full and a frame tick has pushed onto the full trail.
C4_Witness ==
    /\ variant = "2d"
    /\ event = "frame"
    /\ Len(orbitPath) = MAX_ORBIT_POINTS
    /\ Len(pushed) > MAX_ORBIT_POINTS

-----------------------------------------------------------------------------
(* C5 *)

\* What the trail keeps of a point handed to it: the 2-D array keeps the
\* numbers, the 3-D Float32Array keeps them in single precision.
Stored(pt) ==
    IF variant = "2d" THEN pt ELSE Vec(Fround(pt.x), Fround(pt.y), Fround(pt.z))

\* C5: once capacity + k points (k >= 1) have been pushed onto an empty
\* trail, the trail holds the last capacity points pushed, in push order,
\* the oldest at index 0; for the 2-D push-then-shift array and for the 3-D
\* in-place shift of the position buffer.
C5_TrailIsLastPushed ==
    Len(pushed) > MAX_ORBIT_POINTS
    => Trail = [i \in 1 .. MAX_ORBIT_POINTS |->
                   Stored(LastN(pushed, MAX_ORBIT_POINTS)[i])]

\* The 3-D buffer has been shifted in place at least twice.
C5_Witness ==
    variant = "3d" /\ Len(pushed) >= MAX_ORBIT_POINTS + 2 /\ ~proximity

-----------------------------------------------------------------------------
(* C6 *)

\* C6: reset, from Running or from Stopped, ends Stopped with no frame
\* callback registered, the body at the fixed initial position and velocity
\* and the trail empty.
C6_ResetEndsAtInitialState ==
    event = "reset" => (Stopped /\ Body = InitialBody /\ Trail = << >>)

\* A 2-D reset that found the loop running (it logged the stop first).
C6_Witness ==
    /\ variant = "2d"
    /\ event = "reset"
    /\ console = << "Orbit simulation stopped.", "Orbit simulation reset." >>

-----------------------------------------------------------------------------
(* C7 *)

\* C7: from any reachable state, reset twice in a row yields the same
\* simulation state (body, trail and its buffer, run state, registered
\* callbacks) as reset once.
C7_ResetTwiceIsResetOnce ==
    Program(Reset(Reset(Cur))) = Program(Reset(Cur))

\* A 3-D run with a collision behind it and points in the buffer: the state
\* a first reset has work to do on.
C7_Witness ==
    /\ variant = "3d"
    /\ proximity
    /\ animationFrameId = NULL
    /\ orbitDrawCount = MAX_ORBIT_POINTS
    /\ Program(Reset(Cur)) # Program(Cur)

-----------------------------------------------------------------------------
(* C8 *)

\* C8: once a tick has signalled the proximity condition, no start, stop or
\* frame tick changes the body's position or velocity; only a reset does.
C8_ProximityIsTerminal ==
    [][ (proximity /\ event' \in {"start", "stop", "frame"}) => Body' = Body ]_vars

\* A 3-D start after the collision: it stepped again and was refused again.
C8_Witness ==
    variant = "3d" /\ proximity /\ event = "start" /\ Warned /\ ticks >= 2

-----------------------------------------------------------------------------
(* C9 *)

-----------------------------------------------------------------------------
(* C10 *)

\* C10: start issued while Running is a no-op: no further frame callback is
\* registered, and animationFrameId, the body and the trail stay as they are.
C10_StartWhileRunningIsNoOp ==
    [][ (event' = "start" /\ animationFrameId # NULL)
        => Program(Cur)' = Program(Cur) ]_vars

\* A 2-D start that found the loop running and did nothing.
C10_Witness ==
    /\ variant = "2d"
    /\ event = "start"
    /\ console = << >>
    /\ animationFrameId # NULL
    /\ scheduled = {animationFrameId}

-----------------------------------------------------------------------------
(* C11 *)

-----------------------------------------------------------------------------
(* C12 *)

\* C12: a stop leaves the run state Stopped with the frame callback
\* cancelled, and from a Stopped state nothing but a start brings a tick
\* back: every other event leaves the state Stopped, takes no step and
\* appends nothing to the trail.  A stop issued while Stopped changes
\* nothing at all.
C12_StopCancelsTheLoop ==
    [][ /\ event' = "stop" => Stopped'
        /\ (Stopped /\ event' # "start")
              => /\ Stopped'
                 /\ event' # "frame"
                 /\ ticks' \in {ticks, 0}
                 /\ pushed' \in {pushed, << >>}
                 /\ Trail' \in {Trail, << >>}
        /\ (Stopped /\ event' = "stop")
              => (Program(Cur)' = Program(Cur) /\ console' = << >>) ]_vars

\* A 2-D stop that found the loop running after some ticks and cancelled it.
C12_Witness ==
    /\ variant = "2d"
    /\ event = "stop"
    /\ ticks >= 1
    /\ console = << "Orbit simulation stopped." >>
    /\ Stopped

-----------------------------------------------------------------------------
(* C13 *)

\* The acceleration updateOrbit computes for the body p: the force towards
\* the star, G_scaled * M_STAR * M_PLANET / distSq along (dx, dy) / dist,
\* divided by M_PLANET.
Accel2D(p, s) ==
    LET dx       == s.x - p.x
        dy       == s.y - p.y
        distSq   == DistSq2D(p, s)
        dist     == FSqrt(distSq, SCALE2D)
        forceMag == FDiv(Lit(G_scaled * M_STAR * M_PLANET, 1, SCALE2D), distSq, SCALE2D)
    IN  [x |-> FDiv(FMul(forceMag, FDiv(dx, dist, SCALE2D), SCALE2D),
                    Lit(M_PLANET, 1, SCALE2D), SCALE2D),
         y |-> FDiv(FMul(forceMag, FDiv(dy, dist, SCALE2D), SCALE2D),
                    Lit(M_PLANET, 1, SCALE2D), SCALE2D)]

\* A step attempt was made and accepted in the step to the primed state.
AcceptedStep ==
    ticks' = ticks + 1 /\ ~Warned'

\* C13: an accepted step is semi-implicit Euler, velocity first: the new
\* velocity is the old velocity plus acceleration * dt, and the new position
\* is the old position plus the NEW velocity * dt, in 2-D and in 3-D.
C13_VelocityThenPosition ==
    [][ AcceptedStep =>
          IF variant = "2d"
          THEN LET a == Accel2D(planet, star)
               IN  /\ planet'.vx = planet.vx + FMul(a.x, dt2D, SCALE2D)
                   /\ planet'.vy = planet.vy + FMul(a.y, dt2D, SCALE2D)
                   /\ planet'.x = planet.x + FMul(planet'.vx, dt2D, SCALE2D)
                   /\ planet'.y = planet.y + FMul(planet'.vy, dt2D, SCALE2D)
          ELSE /\ planet'.vel = AddScaledVector(planet.vel, planet'.acc, dt3D)
               /\ planet'.pos = AddScaledVector(planet.pos, planet'.vel, dt3D) ]_vars

\* A 3-D frame tick has taken an accepted step under a non-zero
\* acceleration, so the old and the new velocity differ.
C13_Witness ==
    /\ variant = "3d"
    /\ event = "frame"
    /\ ~Warned
    /\ ticks >= 2
    /\ planet.acc # Vec(0, 0, 0)
    /\ AddScaledVector(planet.vel, planet.acc, dt3D) # planet.vel

-----------------------------------------------------------------------------
(* C14 *)

\* C14 as stated: from the reset state one step changes the velocity by
\* 1/45 towards the central mass in both variants, giving (-1/45, 0, 15) in
\* 3-D and (-1/45, 2.5) in 2-D.
C14_FirstStepVelocityAsClaimed ==
    [][ (Body = InitialBody /\ AcceptedStep) =>
          IF variant = "2d"
          THEN /\ planet'.vx = Lit(-1, 45, SCALE2D)
               /\ planet'.vy = Lit(25, 10, SCALE2D)
          ELSE planet'.vel = Vec(Lit(-1, 45, SCALE3D), 0, Lit(15, 1, SCALE3D)) ]_vars

\* C14, amended: from the reset state, the central mass of mass 1000 at the
\* origin and the body at (150, 0), one step changes the velocity towards
\* the central mass.  In 3-D, with G = 50, dt = 0.01 and velocity (0, 15, 5),
\* the change is (50*1000/150^2)*0.01 = 1/45 and the velocity becomes
\* (-1/45, 15, 5).  In 2-D, with G = 1000, dt = 0.005 and velocity (0, 2.5),
\* the change is (1000*1000/150^2)*0.005 = 2/9 and the velocity becomes
\* (-2/9, 2.5).
C14_FirstStepVelocity ==
    [][ (Body = InitialBody /\ AcceptedStep) =>
          IF variant = "2d"
          THEN /\ << planet.x, planet.y >> = << Lit(150, 1, SCALE2D), 0 >>
               /\ << planet.vx, planet.vy >> = << 0, Lit(25, 10, SCALE2D) >>
               /\ star = [x |-> 0, y |-> 0]
               /\ planet'.vx = Lit(-2, 9, SCALE2D)
               /\ planet'.vy = Lit(25, 10, SCALE2D)
          ELSE /\ planet.pos = Vec(Lit(150, 1, SCALE3D), 0, 0)
               /\ planet.vel = Vec(0, Lit(15, 1, SCALE3D), Lit(5, 1, SCALE3D))
               /\ star = Vec(0, 0, 0)
               /\ planet'.vel = Vec(Lit(-1, 45, SCALE3D), Lit(15, 1, SCALE3D),
                                    Lit(5, 1, SCALE3D)) ]_vars

\* The 2-D body one step after a reset, its velocity changed by 2/9.
C14_Witness ==
    /\ variant = "2d"
    /\ event = "frame"
    /\ ticks = 1
    /\ Len(pushed) = 1
    /\ planet.vx = Lit(-2, 9, SCALE2D)
    /\ planet.x = Lit(150, 1, SCALE2D) + FMul(planet.vx, dt2D, SCALE2D)

-----------------------------------------------------------------------------
(* C15 *)

\* C15: toggling the show-spacetime-grid checkbox only changes what is
\* drawn: the body's position and velocity, the trail and the run state
\* (the handle and the registered callbacks) stay as they are, in 2-D and
\* in 3-D.
C15_GridToggleIsRenderingOnly ==
    [][ event' = "grid"
        => /\ Body' = Body
           /\ Trail' = Trail
           /\ animationFrameId' = animationFrameId
           /\ scheduled' = scheduled ]_vars

-----------------------------------------------------------------------------
(* C16 *)

\* The position of the body, as the trail takes it.
PositionOf(s) ==
    IF variant = "2d" THEN [x |-> s.planet.x, y |-> s.planet.y] ELSE s.planet.pos

-----------------------------------------------------------------------------
(* C17 *)

\* The bodies 1, 2, ... j accepted steps after a reset, each the step from
\* the one before.
RECURSIVE OrbitAfterReset(_)
OrbitAfterReset(j) ==
    IF j = 0
    THEN << >>
    ELSE LET before == OrbitAfterReset(j - 1)
             from   == IF j = 1
                       THEN (IF variant = "2d" THEN InitialPlanet2D ELSE InitialPlanet3D)
                       ELSE before[j - 1]
         IN  Append(before, IF variant = "2d"
                            THEN Integrate2D(from, InitialStar2D)
                            ELSE Integrate3D(from, InitialStar3D))

\* The body j accepted steps after a reset, j >= 1.
BodyAfter(j) ==
    OrbitAfterReset(j)[j]

\* The run comes from a reset (or from the page load, which resets) and all
\* its ticks were accepted: ticks counts the runs of the tick function since
\* the last reset, pushed the points handed to the trail since then.  A run
\* that did not begin at a reset has a point more than it has ticks.
RunSinceReset ==
    ~proximity /\ Len(pushed) = ticks

\* C17: nothing of a run survives a reset.  After a reset and j accepted
\* ticks, j up to the capacity, the visible trail is exactly the j positions
\* the body took after that reset, in order, and holds no point of the
\* earlier run; in 3-D although the reset leaves the position buffer as it
\* is and only zeroes orbitDrawCount.  (A tick is a run of gameLoop or of
\* animate; the 3-D start runs animate once itself.)
C17_NothingSurvivesReset ==
    (RunSinceReset /\ ticks <= MAX_ORBIT_POINTS)
    => Trail = [i \in 1 .. ticks |->
                   Stored(PositionOf([planet |-> OrbitAfterReset(ticks)[i]]))]

\* A 3-D run after a reset, with a point of the earlier run still in the
\* buffer right behind the points drawn.
C17_Witness ==
    /\ variant = "3d"
    /\ RunSinceReset
    /\ ticks >= 1
    /\ orbitDrawCount = ticks
    /\ orbitDrawCount < MAX_ORBIT_POINTS
    /\ positions[orbitDrawCount * 3] # 0

-----------------------------------------------------------------------------
(* C18 *)

\* C18: right after the page has loaded, before any user input, each
\* variant is Stopped, with the body at its fixed initial position and
\* velocity and an empty trail: the reset has occurred before the first
\* start can be issued.
C18_LoadedIsStoppedAtInitialState ==
    event = "load"
    => /\ Stopped
       /\ Body = InitialBody
       /\ Trail = << >>
       /\ ticks = 0
       /\ console[Len(console)] \in {"Orbit simulation reset.",
                                     "3D Orbit simulation reset."}

\* The 3-D page as init() leaves it.
C18_Witness ==
    /\ event = "load"
    /\ variant = "3d"
    /\ orbitDrawCount = 0
    /\ planet.vel = Vec(0, Lit(15, 1, SCALE3D), Lit(5, 1, SCALE3D))

-----------------------------------------------------------------------------
(* C19 *)

\* The trail s.orbitPath as a polyline on the canvas, oldest point first.
PolylineOf(s) ==
    [i \in 1 .. Len(s.orbitPath) |-> SimToCanvas(s.orbitPath[i].x, s.orbitPath[i].y)]

\* C19: reading the trail for rendering has no side effects.  Drawing the
\* path on a cleared canvas, then again with no tick or reset in between,
\* visits the same points both times, the trail's points from the oldest to
\* the newest (none when the trail has fewer than two), and leaves the
\* trail, the body and the run state as they were.
C19_DrawingReadsOnly ==
    variant = "2d" =>
        LET once  == DrawOrbitPath(ClearCanvas(Cur))
            twice == DrawOrbitPath(ClearCanvas(once))
        IN  /\ once.stroke = (IF Len(orbitPath) < 2 THEN << >> ELSE PolylineOf(Cur))
            /\ twice.stroke = once.stroke
            /\ Program(once) = Program(Cur)
            /\ Program(twice) = Program(Cur)

\* A 2-D frame tick has drawn a trail of at least two different points.
C19_Witness ==
    /\ variant = "2d"
    /\ event = "frame"
    /\ Len(orbitPath) >= 2
    /\ orbitPath[1] # orbitPath[Len(orbitPath)]
    /\ stroke = PolylineOf(Cur)

-----------------------------------------------------------------------------
(* C20 *)

\* C20: the central mass is immovable: star in 2-D and starPos in 3-D are
\* at the origin in every reachable state, so no step, append, start, stop,
\* reset or grid toggle changes them.
C20_CentralMassStaysAtOrigin ==
    star = (IF variant = "2d" THEN [x |-> 0, y |-> 0] ELSE Vec(0, 0, 0))

\* A 3-D run has taken accepted steps on frame ticks, the star still at the
\* origin and the body away from where it started.
C20_Witness ==
    /\ variant = "3d"
    /\ event = "frame"
    /\ ticks >= 2
    /\ ~proximity
    /\ planet.pos # InitialPlanet3D.pos
    /\ star = Vec(0, 0, 0)

-----------------------------------------------------------------------------
(* C21 *)

\* The step of the loaded script, from state s.
Step(s) ==
    IF variant = "2d" THEN UpdateOrbit(Enter(s)) ELSE UpdatePhysics(Enter(s))

\* What a step decides: whether it refused, and the body it leaves.
Outcome(s) ==
    LET t == Step(s) IN << WarnedIn(t), BodyOf(t) >>

\* States with the body, the central mass and the constants of s, but
\* another trail, another run state or another setting of the checkbox.
SameBodyAs(s) ==
    { [s EXCEPT !.orbitPath = IF emptied THEN << >> ELSE @,
                !.orbitDrawCount = IF emptied THEN 0 ELSE @,
                !.positions = IF emptied THEN EmptyPositions ELSE @,
                !.animationFrameId = IF running THEN 1 ELSE NULL,
                !.scheduled = IF running THEN {1} ELSE {},
                !.showSpacetimeCheck = checked,
                !.gridVisible = (variant = "3d" /\ checked)] :
        emptied \in BOOLEAN, running \in BOOLEAN, checked \in BOOLEAN }

\* C21: the step is deterministic: two runs with the same body position and
\* velocity and the same constants take the same decision (accept or
\* refuse) and, when the step is accepted, reach the same new position and
\* velocity, whatever the trail holds, whether the loop is running and
\* however the grid checkbox is set.
C21_StepDependsOnBodyOnly ==
    \A other \in SameBodyAs(Cur) : Outcome(other) = Outcome(Cur)

\* A 2-D run in mid-orbit with a trail, the loop running and the grid shown,
\* from which the next step is accepted: each of the three differs from
\* some state it is compared with.
C21_Witness ==
    /\ variant = "2d"
    /\ event = "frame"
    /\ Len(orbitPath) >= 2
    /\ animationFrameId # NULL
    /\ showSpacetimeCheck
    /\ ~Outcome(Cur)[1]
    /\ Outcome(Cur)[2] # Body

-----------------------------------------------------------------------------
(* C22 *)

\* C22: between events at most one frame callback is registered, and
\* animationFrameId is non-null exactly when one is, being its handle: no
\* sequence of start, stop, reset, grid toggle and frame ticks, proximity
\* ticks included, schedules two loops or leaves a callback registered
\* while animationFrameId is null.
C22_OneLoopAtMost ==
    /\ Cardinality(scheduled) <= 1
    /\ (animationFrameId # NULL) <=> (scheduled # {})
    /\ scheduled \subseteq {animationFrameId}

\* The 2-D loop after a tick that hit the proximity condition: the callback
\* registered is the one gameLoop requested after the stop.
C22_Witness ==
    /\ variant = "2d"
    /\ event = "frame"
    /\ Warned
    /\ scheduled = {animationFrameId}

-----------------------------------------------------------------------------
(* C23 *)

\* Bodies at and around the 2-D threshold distance 1: at the star, one
\* lattice point inside, exactly at distance 1 (on the axis and at
\* (0.6, 0.8)), one lattice point outside, and at distance 2.
NearStar2D ==
    { [x |-> p[1], y |-> p[2], vx |-> v[1], vy |-> v[2]] :
        p \in { << 0, 0 >>,
                << Lit(1, 1, SCALE2D) - 1, 0 >>,
                << Lit(1, 1, SCALE2D), 0 >>,
                << Lit(6, 10, SCALE2D), Lit(8, 10, SCALE2D) >>,
                << Lit(1, 1, SCALE2D) + 1, 0 >>,
                << 0, Lit(2, 1, SCALE2D) >> },
        v \in { << 0, 0 >>, << 0, Lit(25, 10, SCALE2D) >> } }

\* Bodies at and around the 3-D threshold distance 5 (squared distance 25).
NearStar3D ==
    { [pos |-> p, vel |-> v, acc |-> Vec(0, 0, 0)] :
        p \in { Vec(0, 0, 0),
                Vec(Lit(5, 1, SCALE3D) - 1, 0, 0),
                Vec(Lit(5, 1, SCALE3D), 0, 0),
                Vec(Lit(3, 1, SCALE3D), Lit(4, 1, SCALE3D), 0),
                Vec(Lit(5, 1, SCALE3D) + 1, 0, 0),
                Vec(0, 0, Lit(6, 1, SCALE3D)) },
        v \in { Vec(0, 0, 0), InitialPlanet3D.vel } }

\* A running loop with the body b near the star, the trail ending at b.
RunningAt(b, checked) ==
    IF variant = "2d"
    THEN [Loaded2D(checked) EXCEPT
            !.planet = b,
            !.orbitPath = << [x |-> b.x, y |-> b.y] >>,
            !.pushed = << [x |-> b.x, y |-> b.y] >>,
            !.animationFrameId = 1, !.scheduled = {1},
            !.console = << "Orbit simulation started." >>]
    ELSE LET one == PushPositions(EmptyPositions, 0, b.pos)
         IN  [Loaded3D(checked) EXCEPT
                !.planet = b,
                !.positions = one[1],
                !.orbitDrawCount = one[2],
                !.pushed = << b.pos >>,
                !.animationFrameId = 1, !.scheduled = {1},
                !.console = << "3D Orbit simulation started." >>]

InitStep ==
    /\ variant \in {"2d", "3d"}
    /\ canvas \in (IF variant = "2d" THEN CanvasSizes ELSE {NoCanvas})
    /\ event = "start"
    /\ \E checked \in BOOLEAN :
         \E b \in (IF variant = "2d" THEN NearStar2D ELSE NearStar3D) :
            LET s == RunningAt(b, checked)
            IN  /\ planet = s.planet
                /\ star = s.star
                /\ orbitPath = s.orbitPath
                /\ positions = s.positions
                /\ orbitDrawCount = s.orbitDrawCount
                /\ animationFrameId = s.animationFrameId
                /\ scheduled = s.scheduled
                /\ showSpacetimeCheck = s.showSpacetimeCheck
                /\ gridVisible = s.gridVisible
                /\ console = s.console
                /\ stroke = s.stroke
                /\ ticks = s.ticks
                /\ proximity = s.proximity
                /\ pushed = s.pushed

NextStep ==
    \/ Frame2D
    \/ Frame3D

\* The frame loop from bodies placed at and around the threshold.
SpecStep ==
    InitStep /\ [][NextStep]_vars

\* The squared distance of the body from the star against the squared
\* threshold, in exact integer arithmetic; the coordinates are compared
\* first so that no square leaves the integer range.
Within(d, r) ==
    /\ \A i \in DOMAIN d : Abs(d[i]) <= r
    /\ LET sq == [i \in DOMAIN d |-> d[i] * d[i]]
       IN  (IF Len(d) = 2 THEN sq[1] + sq[2] ELSE sq[1] + sq[2] + sq[3]) < r * r

Offset ==
    IF variant = "2d"
    THEN << star.x - planet.x, star.y - planet.y >>
    ELSE << star.x - planet.pos.x, star.y - planet.pos.y, star.z - planet.pos.z >>

Threshold ==
    IF variant = "2d" THEN Lit(1, 1, SCALE2D) ELSE Lit(5, 1, SCALE3D)

\* C23: the proximity test is a strict less-than.  A step is refused exactly
\* when the distance is below 1 in 2-D and the squared distance below 25 in
\* 3-D: a body at exactly the threshold distance is integrated, and a body
\* at distance 0 is refused with position and velocity as they were, before
\* any division by the distance.
C23_ThresholdIsStrict ==
    [][ ticks' = ticks + 1 =>
          /\ Warned' <=> Within(Offset, Threshold)
          /\ ~Warned' => planet' = (IF variant = "2d"
                                    THEN Integrate2D(planet, star)
                                    ELSE Integrate3D(planet, star))
          /\ Warned' => Body' = Body ]_vars

\* A 2-D body that started at exactly distance 1, at (0.6, 0.8), has been
\* integrated: the trail holds the start and the new position.
C23_Witness ==
    /\ variant = "2d"
    /\ event = "frame"
    /\ ticks = 1
    /\ ~Warned
    /\ Len(pushed) = 2
    /\ pushed[1] = [x |-> Lit(6, 10, SCALE2D), y |-> Lit(8, 10, SCALE2D)]
    /\ pushed[2] # pushed[1]

-----------------------------------------------------------------------------
(* C24 *)

\* C24 as stated: between events, a non-empty trail ends with the body's
\* current position.
C24_NewestIsBodyPositionAsClaimed ==
    Len(Trail) >= 1 => Trail[Len(Trail)] = PositionOf(Cur)

\* C24, amended: between events, a non-empty trail ends with the body's
\* current position, exactly in 2-D and rounded to single precision, as the
\* Float32Array stores it, in 3-D; across accepted and refused ticks,
\* eviction at capacity, stop, start and reset.
C24_NewestIsStoredBodyPosition ==
    Len(Trail) >= 1 => Trail[Len(Trail)] = Stored(PositionOf(Cur))

\* A 3-D frame tick has evicted a point and appended the body's position,
\* which the buffer holds rounded.
C24_Witness ==
    /\ variant = "3d"
    /\ event = "frame"
    /\ orbitDrawCount = MAX_ORBIT_POINTS
    /\ Len(pushed) > MAX_ORBIT_POINTS
    /\ Trail[Len(Trail)] = Stored(planet.pos)
    /\ Trail[Len(Trail)] # planet.pos

-----------------------------------------------------------------------------
(* C25 *)

\* The 2-D trail is empty only with the body at its initial values.
EmptyTrailMeansInitialBody ==
    Len(orbitPath) = 0 => Body = InitialBody

\* C25: in 2-D the trail is empty only when the body is at its initial
\* position and velocity, so the reset that start performs on an empty
\* trail discards no progress: a start, after a stop in particular, leaves
\* the body and the trail as they were at the stop.
C25_ImplicitResetKeepsProgress ==
    [][ variant = "2d" =>
          /\ EmptyTrailMeansInitialBody
          /\ EmptyTrailMeansInitialBody'
          /\ event' = "start" => (Body' = Body /\ Trail' = Trail) ]_vars

\* A 2-D start that resumed a run stopped in mid-orbit.
C25_Witness ==
    /\ variant = "2d"
    /\ event = "start"
    /\ console = << "Orbit simulation started." >>
    /\ ticks >= 1
    /\ Len(orbitPath) >= 1
    /\ Body # InitialBody

-----------------------------------------------------------------------------
(* C26 *)

\* C26: the body and the trail change only inside a frame callback or a
\* reset.  The start and stop handlers never advance the body or append to
\* the trail, so alternating start and stop with no frame callback firing
\* leaves both as they were.
C26_StartAndStopLeaveBodyAndTrail ==
    [][ event' \in {"start", "stop"}
        => (Body' = Body /\ Trail' = Trail /\ pushed' = pushed) ]_vars

====
